---- MODULE Spec2Model ----
(***************************************************************************)
(* Zyntax NLP terminal: the pipeline executor (command_pipeline.py) and    *)
(* the intent resolver (enhanced_parser.py) as state machines.             *)
(*                                                                         *)
(* Optional values (Python None / an absent dict key) are sequences:       *)
(* <<>> is None or "key absent", <<v>> is the value v.                     *)
(***************************************************************************)
EXTENDS Integers, Sequences, FiniteSets, TLC

(***************************************************************************)
(* Bounds of the model.                                                    *)
(***************************************************************************)
MaxStages == 2
MaxParses == 2
MaxFeedback == 1
MaxAdds == 11
MaxWords == 3
MaxCorrections == 2
MaxMapped == 2

None == <<>>
Some(v) == <<v>>

(***************************************************************************)
(* Inputs of the pipeline executor.                                        *)
(***************************************************************************)
\* actions a caller may put in a PipelineStage: with StageArgs they give a
\* native stage with and without arguments (list_files), stages that are native
\* only with arguments (display_file, find_text) and stages that never are
\* (cat), output-consuming (display_file, cat) or not (find_text)
StageActions == {"list_files", "display_file", "find_text", "cat"}

\* argument lists of a PipelineStage
StageArgs == {<<>>, <<"f.txt">>}

\* the stdout texts a process or the executor may produce
Outputs == {"", "out"}

PipelineStage(action, args) == [action |-> action, args |-> args]

Stages == {PipelineStage(a, g) : a \in StageActions, g \in StageArgs}

RECURSIVE SeqsUpTo(_, _)
SeqsUpTo(S, n) ==
    IF n = 0 THEN {<<>>}
    ELSE LET shorter == SeqsUpTo(S, n - 1)
         IN  shorter \cup {Append(q, e) : q \in {r \in shorter : Len(r) = n - 1}, e \in S}

Pipelines == SeqsUpTo(Stages, MaxStages)

VARIABLES
    pc,              \* "idle" | "ready" | "run" | "done": position in execute_pipeline
    pipeline,        \* the stage list execute_pipeline works on (stage.args is mutable)
    pipeline0,       \* the stage list as the caller passed it
    i,               \* loop index of _execute_multi_stage_pipeline (0-based)
    current_input,   \* None or the stdout text carried to the next stage
    stages_executed, \* counter of _execute_multi_stage_pipeline
    temp_files,      \* names registered for clean-up
    fs,              \* temporary files that exist: name -> content
    ended,           \* "no" | "returned" | "raised": how the call ended
    result,          \* the dict execute_pipeline returned
    mapped,          \* stages handed to _map_to_native_command, in order
    native_cmds,     \* what _map_to_native_command returned for them, in order
    log              \* invocations (OS process or executor callable), in order

execVars == <<pc, pipeline, pipeline0, i, current_input, stages_executed, temp_files,
              fs, ended, result, mapped, native_cmds, log>>

VARIABLES
    commands,        \* CommandHistory.commands
    last_entities,   \* CommandHistory.last_entities: entity type -> values
    learning_data,   \* EnhancedParser.learning_data
    saved,           \* content of learning_data.json (None: no file)
    parses,          \* number of parse_input calls so far
    feedbacks,       \* number of record_feedback calls so far
    call,            \* the latest parse_input call: its input, what it saw, its result
    added            \* every command given to add_command so far, oldest first

parserVars == <<commands, last_entities, learning_data, saved, parses, feedbacks, call,
               added>>

VARIABLES
    utterance,       \* the text typed, or last given to parse_pipeline
    split_result,    \* what split_pipeline_stages returned for it (None: not called)
    detector_result  \* what is_pipeline and detect_pipeline returned (None: not called)

textVars == <<utterance, split_result, detector_result>>

VARIABLES
    verbose,               \* ZyntaxInterface.verbose
    show_command_preview,  \* ZyntaxInterface.show_command_preview
    learning_mode,         \* AdvancedTerminal.learning_mode
    settings_call,         \* the last handle_settings_command call (None: none yet)
    auto_suggest,          \* ZyntaxTester.auto_suggest
    front                  \* what a front end did with the last utterance

frontVars == <<verbose, show_command_preview, learning_mode, settings_call,
               auto_suggest, front>>

otherVars == <<textVars, frontVars>>

vars == <<execVars, parserVars, otherVars>>

(***************************************************************************)
(* The environment: what an OS process and the executor callable can do.   *)
(***************************************************************************)
\* exit codes of a process that ran (1 is what the code's own error paths use)
ExitCodes == {0, 2}

\* subprocess.run(cmd, ...): the process exits, or starting it raises OSError
ProcessOutcomes ==
    {[raises |-> FALSE, returncode |-> rc, stdout |-> o,
      stderr |-> IF rc = 0 THEN "" ELSE "err"] : rc \in ExitCodes, o \in Outputs}
    \cup {[raises |-> TRUE, returncode |-> 0, stdout |-> "", stderr |-> ""]}

\* self.executor(cmd): a dict, None, a string, or an exception
ExecutorOutcomes ==
    {[kind |-> "dict", returncode |-> Some(rc), stdout |-> o,
      stderr |-> IF rc = 0 THEN "" ELSE "err", success |-> None, text |-> ""] :
        rc \in ExitCodes, o \in Outputs}
    \cup {[kind |-> "dict", returncode |-> None, stdout |-> "",
           stderr |-> "Unknown command", success |-> Some(FALSE), text |-> ""]}
    \cup {[kind |-> k, returncode |-> None, stdout |-> "", stderr |-> "",
           success |-> None, text |-> ""] : k \in {"none", "exception", "interrupt"}}
    \cup {[kind |-> "str", returncode |-> None, stdout |-> "", stderr |-> "",
           success |-> None, text |-> t] : t \in {"PYTHON_HANDLED", "done"}}

\* tempfile.NamedTemporaryFile / write / close: all succeed, the creation raises,
\* or the write raises after the file was created
TempOutcomes == {"ok", "create_fails", "write_fails"}

(***************************************************************************)
(* command_pipeline.py                                                     *)
(***************************************************************************)
\* dict.get(key, default) on an optional value
Get(opt, default) == IF opt = None THEN default ELSE opt[1]

Range(q) == {q[k] : k \in 1..Len(q)}

\* the result dict of execute_pipeline; absent keys are None
Result(success, error, stdout, stderr, returncode, executed, failed) ==
    [success |-> success, error |-> error, stdout |-> stdout, stderr |-> stderr,
     returncode |-> returncode, stages_executed |-> executed, failed_stage |-> failed]

NoResult == Result(FALSE, None, "", "", None, 0, None)

\* mutant of EmptyPipelineResult: an empty list is silently a successful no-op
EmptyPipelineResult_NoOp == Result(TRUE, None, "", "", Some(0), 0, None)

\* execute_pipeline on an empty list
EmptyPipelineResult ==
    Result(FALSE, Some("Empty pipeline"), "", "No commands to execute", None, 0, None)

\* mutant of ListCommand: the long listing whatever the arguments
ListCommand_Long(args) == <<"ls", "-la">>

\* "['ls', '-la'] if args else ['ls']"
ListCommand(args) == IF args # <<>> THEN <<"ls", "-la">> ELSE <<"ls">>

_map_to_native_command(stage, input_data, is_last_stage) ==
    LET action == stage.action
        args == stage.args
    IN  IF action = "list_files"
            THEN Some(ListCommand(args))
        ELSE IF action = "display_file" /\ args # <<>>
            THEN Some(<<"cat">> \o args)
        ELSE IF action = "grep" \/ action = "find_text"
            THEN (IF args # <<>> THEN Some(<<"grep">> \o args) ELSE None)
        ELSE IF action = "count_lines"
            THEN Some(<<"wc", "-l">>)
        ELSE IF action = "sort_lines"
            THEN Some(<<"sort">> \o args)
        ELSE None

\* input=input_data.encode('utf-8') if input_data else None
\* None and the empty string both give no input; anything else gives bytes
NativeInput(input_data) ==
    IF input_data # None /\ input_data[1] # "" THEN "bytes" ELSE "None"

\* subprocess.run(..., text=True) writes its input as text: bytes input makes
\* communicate() raise once the process has started, before anything is written
InputRaises(input) == input = "bytes"

\* what reaches the stdin of the process: nothing (the process inherits the
\* caller's stdin) when no input was given or when writing it raised
NativeStdin(input_data) ==
    IF NativeInput(input_data) = "None" \/ InputRaises(NativeInput(input_data))
        THEN None
        ELSE input_data

_execute_native_command(input_data, proc) ==
    IF InputRaises(NativeInput(input_data)) \/ proc.raises
        THEN Result(FALSE, Some("exception"), "", "Error executing command", Some(1), 0, None)
        ELSE Result(proc.returncode = 0, None, proc.stdout, proc.stderr,
                    Some(proc.returncode), 0, None)

StartsWithPythonHandled(text) == text = "PYTHON_HANDLED"

\* the executor's return value adapted to a result dict ("interrupt", a
\* BaseException, is not caught here)
_execute_single_command(ex) ==
    IF ex.kind = "exception"
        THEN Result(FALSE, Some("exception"), "", "Error executing command", Some(1), 0, None)
    ELSE IF ex.kind = "dict"
        THEN Result(Get(ex.returncode, 0) = 0, None, ex.stdout, ex.stderr,
                    Some(Get(ex.returncode, 0)), 1, None)
    ELSE IF ex.kind = "none" \/ StartsWithPythonHandled(ex.text)
        THEN Result(TRUE, None, "Command executed successfully", "", Some(0), 1, None)
    ELSE Result(TRUE, None, ex.text, "", Some(0), 1, None)

\* mutant of FailedStageResult: reports the stages completed before the
\* failing one and a fixed return code
FailedStageResult_Completed(r, input, executed, k) ==
    Result(FALSE, None, input, r.stderr, Some(1), executed - 1, Some(k))

\* the dict returned when stage k (0-based) failed
FailedStageResult(r, input, executed, k) ==
    Result(FALSE, None, input, r.stderr, Some(Get(r.returncode, 1)), executed, Some(k))

\* mutant of AllStagesResult: the output of the last stage is dropped
AllStagesResult_NoOutput(input, executed) ==
    Result(TRUE, None, "", "", Some(0), executed, None)

\* the dict returned when every stage succeeded; input is None or the last stdout
AllStagesResult(input, executed) ==
    Result(TRUE, None, Get(input, ""), "", Some(0), executed, None)

\* the finally block: os.unlink of every registered name
Unlink(files, names) == {f \in files : f.name \notin Range(names)}

TempName(k) == "/tmp/tmp" \o ToString(k)

\* mutant of IsOutputConsuming: every action takes the file as its argument
IsOutputConsuming_Any(action) == action = action

\* "if stage.action in ['display_file', 'cat']"
IsOutputConsuming(action) == action \in {"display_file", "cat"}

\* mutant of NextIndex: the loop stays on the stage it has just run
NextIndex_Same(k) == k

\* "for i, stage in enumerate(pipeline)": the index of the next iteration
NextIndex(k) == k + 1

\* one record of the log: stage k was invoked via a process or the executor
\* with these arguments, the callee did what outcome says, and (unless
\* interrupted) that gave the stage result r
Invocation(k, via, action, args, carried, stdin, interrupted, r, outcome) ==
    [stage |-> k, via |-> via, action |-> action, args |-> args, carried |-> carried,
     stdin |-> stdin, returned |-> ~interrupted, outcome |-> outcome,
     success |-> ~interrupted /\ r.success,
     stdout |-> IF interrupted THEN "" ELSE r.stdout,
     stderr |-> IF interrupted THEN "" ELSE r.stderr,
     returncode |-> IF interrupted THEN None ELSE r.returncode]

(***************************************************************************)
(* enhanced_parser.py                                                      *)
(*                                                                         *)
(* An utterance is the sequence of its tokens (what self.nlp(text) yields);*)
(* the empty sequence is a whitespace-only text.  The tokenizer, the       *)
(* tagger and the two similarity scorers are libraries: the tagger is a    *)
(* table over the modelled tokens, fuzz.ratio is computed from the longest *)
(* common subsequence of the modelled texts, and the best WRatio match is  *)
(* any phrase with any score.                                              *)
(***************************************************************************)
fuzzy_match_threshold_execute == 90
fuzzy_match_threshold_suggest == 65
LearningSimilarity == 90
history_size == 10

\* what a user may type
Utterances ==
    {<<>>,
     <<"List", "files">>,
     <<"lst", "files">>,
     <<"list", "filez">>,
     <<"display", "that", "file">>,
     <<"ls">>,
     <<"change", "directory", "to", "that", "folder">>}

\* texts a user may give feedback on
FeedbackTexts == {<<>>, <<"List", "files">>, <<"display", "that", "file">>}

\* actions a user may name as the correct one in a feedback
CorrectActions == {"display_file", "show_path"}

\* str.lower() of a token
Lower(token) ==
    CASE token = "List" -> "list"
      [] token = "And" -> "and"
      [] token = "Count" -> "count"
      [] token = "Verbose" -> "verbose"
      [] OTHER -> token

LowerAll(doc) == [k \in 1..Len(doc) |-> Lower(doc[k])]

RECURSIVE JoinTokens(_)
JoinTokens(doc) ==
    IF Len(doc) = 0 THEN ""
    ELSE IF Len(doc) = 1 THEN doc[1]
    ELSE IF doc[2] = "," THEN doc[1] \o JoinTokens(Tail(doc))
    ELSE doc[1] \o " " \o JoinTokens(Tail(doc))

\* the text of an utterance; a blank one is a single space
Text(doc) == IF doc = <<>> THEN " " ELSE JoinTokens(doc)

\* text.lower()
LowerText(doc) == IF doc = <<>> THEN " " ELSE JoinTokens(LowerAll(doc))

\* "not text.strip()"
IsBlank(doc) == doc = <<>>

\* base_action_keywords, in dict order (no user mappings are loaded)
action_keywords ==
    << [phrase |-> <<"list", "files">>, action |-> "list_files"],
       [phrase |-> <<"show", "files">>, action |-> "list_files"],
       [phrase |-> <<"ls">>, action |-> "list_files"],
       [phrase |-> <<"show", "current", "directory">>, action |-> "show_path"],
       [phrase |-> <<"pwd">>, action |-> "show_path"],
       [phrase |-> <<"change", "directory">>, action |-> "change_directory"],
       [phrase |-> <<"cd">>, action |-> "change_directory"] >>

\* action_keywords.get(phrase)
KeywordAction(phrase) ==
    LET hits == {k \in 1..Len(action_keywords) : action_keywords[k].phrase = phrase}
    IN  IF hits = {} THEN None ELSE Some(action_keywords[CHOOSE k \in hits : TRUE].action)

\* _setup_matchers: only the phrases with a space go into the PhraseMatcher
MatcherPhrases ==
    {action_keywords[k].phrase : k \in {j \in 1..Len(action_keywords) :
                                            Len(action_keywords[j].phrase) > 1}}

\* self.command_matcher(doc): the spans whose lower-cased tokens are a phrase;
\* the first one reported is the one that ends first
command_matcher(doc) ==
    LET spans == {se \in (1..Len(doc)) \X (1..Len(doc)) :
                     /\ se[1] <= se[2]
                     /\ LowerAll(SubSeq(doc, se[1], se[2])) \in MatcherPhrases}
    IN  IF spans = {} THEN None
        ELSE Some(CHOOSE se \in spans :
                     \A other \in spans :
                         \/ se[2] < other[2]
                         \/ (se[2] = other[2] /\ se[1] <= other[1]))

\* mutant of ExactMatch: the phrase matcher finds nothing
ExactMatch_Never(doc) ==
    None

\* exact_match of parse_input: None or the action of the first matched phrase
ExactMatch(doc) ==
    LET command_matches == command_matcher(doc)
    IN  IF command_matches = None THEN None
        ELSE KeywordAction(LowerAll(SubSeq(doc, command_matches[1][1],
                                           command_matches[1][2])))

\* the best WRatio match of a text over the vocabulary, as the scorer may see
\* it: a text equal to a phrase scores 100 with it; otherwise any of these
ScoreSamples == {64, 65, 89, 90}

BestPhrases == {<<"list", "files">>}

WRatioBest(doc) ==
    IF KeywordAction(LowerAll(doc)) # None
        THEN {[phrase |-> LowerAll(doc), score |-> 100]}
        ELSE {[phrase |-> ph, score |-> sc] : ph \in BestPhrases, sc \in ScoreSamples}

\* what the scorer is given when parse_input does not call it
NotScored == [phrase |-> <<>>, score |-> 0]

\* process.extractOne(..., score_cutoff=cutoff): the best match, if it reaches
\* the cutoff
extractOne(best, cutoff) == IF best.score >= cutoff THEN Some(best) ELSE None

\* mutant of FuzzyDecision: a score equal to the execute threshold only suggests
FuzzyDecision_Strict(match_result) ==
    IF match_result = None
        THEN [action_id |-> None, suggestion_action_id |-> None,
              suggestion_phrase |-> None]
    ELSE IF match_result[1].score > fuzzy_match_threshold_execute
        THEN [action_id |-> KeywordAction(match_result[1].phrase),
              suggestion_action_id |-> None, suggestion_phrase |-> None]
    ELSE [action_id |-> None,
          suggestion_action_id |-> KeywordAction(match_result[1].phrase),
          suggestion_phrase |-> Some(match_result[1].phrase)]

\* the branch "if match_result:" of parse_input
FuzzyDecision(match_result) ==
    IF match_result = None
        THEN [action_id |-> None, suggestion_action_id |-> None,
              suggestion_phrase |-> None]
    ELSE LET matched_phrase == match_result[1].phrase
             score == match_result[1].score
         IN  IF score >= fuzzy_match_threshold_execute
                 THEN [action_id |-> KeywordAction(matched_phrase),
                       suggestion_action_id |-> None, suggestion_phrase |-> None]
             ELSE IF score >= fuzzy_match_threshold_suggest
                 THEN [action_id |-> None,
                       suggestion_action_id |-> KeywordAction(matched_phrase),
                       suggestion_phrase |-> Some(matched_phrase)]
             ELSE [action_id |-> None, suggestion_action_id |-> None,
                   suggestion_phrase |-> None]

\* length of the longest common subsequence of two modelled texts
Lcs(a, b) ==
    IF a = b THEN Len(a)
    ELSE CASE {a, b} = {" ", "list files"} -> 1
           [] {a, b} = {" ", "lst files"} -> 1
           [] {a, b} = {" ", "list filez"} -> 1
           [] {a, b} = {" ", "display that file"} -> 1
           [] {a, b} = {" ", "ls"} -> 0
           [] {a, b} = {"list files", "lst files"} -> 9
           [] {a, b} = {"list files", "list filez"} -> 9
           [] {a, b} = {"list files", "display that file"} -> 8
           [] {a, b} = {"list files", "ls"} -> 2
           [] {a, b} = {"lst files", "list filez"} -> 8
           [] {a, b} = {"lst files", "display that file"} -> 7
           [] {a, b} = {"lst files", "ls"} -> 2
           [] {a, b} = {"list filez", "display that file"} -> 8
           [] {a, b} = {"list filez", "ls"} -> 2
           [] {a, b} = {"display that file", "ls"} -> 1
           [] {a, b} = {" ", "ls, list files,"} -> 1
           [] {a, b} = {"list files", "ls, list files,"} -> 10
           [] {a, b} = {"lst files", "ls, list files,"} -> 9
           [] {a, b} = {"list filez", "ls, list files,"} -> 9
           [] {a, b} = {"display that file", "ls, list files,"} -> 8
           [] {a, b} = {"ls", "ls, list files,"} -> 2
           [] {a, b} = {" ", "change directory to that folder"} -> 1
           [] {a, b} = {"list files", "change directory to that folder"} -> 6
           [] {a, b} = {"lst files", "change directory to that folder"} -> 5
           [] {a, b} = {"list filez", "change directory to that folder"} -> 6
           [] {a, b} = {"display that file", "change directory to that folder"} -> 12
           [] {a, b} = {"ls", "change directory to that folder"} -> 1
           [] {a, b} = {"ls, list files,", "change directory to that folder"} -> 7

\* fuzz.ratio(a, b) > threshold, where fuzz.ratio is 100 * 2 * lcs / (|a| + |b|)
RatioAbove(a, b, threshold) == 200 * Lcs(a, b) > threshold * (Len(a) + Len(b))

\* _check_learning_data: the action of the first correction, in dict order,
\* whose source is similar enough
_check_learning_data(doc, user_corrections) ==
    LET similar == {k \in 1..Len(user_corrections) :
                       RatioAbove(LowerText(doc), LowerText(user_corrections[k].source),
                                  LearningSimilarity)}
    IN  IF similar = {} THEN None
        ELSE Some(user_corrections[CHOOSE k \in similar :
                                       \A j \in similar : k <= j].action)

\* mutant of ApplyLearning: a correction is used only when nothing else matched
ApplyLearning_Fallback(action_id, learned_action) ==
    IF action_id = None THEN learned_action ELSE action_id

\* "if learned_action: action_id = learned_action"
ApplyLearning(action_id, learned_action) ==
    IF learned_action # None THEN learned_action ELSE action_id

\* the tagger on the modelled tokens: part of speech and stop-word flag
Pos(token) ==
    IF token \in {"files", "file", "filez", "directory", "folder"} THEN "NOUN"
    ELSE IF token \in {"ls", "lst"} THEN "PROPN"
    ELSE "OTHER"

IsStop(token) == Lower(token) \in {"that", "this", "and", "then", "to"}

\* the tokens of doc, in order, that satisfy keep
RECURSIVE Select(_, _)
Select(doc, keep) ==
    IF doc = <<>> THEN <<>>
    ELSE (IF doc[1] \in keep THEN <<doc[1]>> ELSE <<>>) \o Select(Tail(doc), keep)

_extract_basic_entities(doc) ==
    [nouns |-> Select(doc, {t \in Range(doc) : Pos(t) = "NOUN" /\ ~IsStop(t)}),
     proper_nouns |-> Select(doc, {t \in Range(doc) : Pos(t) = "PROPN"})]

\* the FILE_PATH token pattern: a token with a character of [/\w.-] in it,
\* which every modelled token but a bare comma has
PathLike(token) == token # ","

StartsWithDash(token) == token \in {"-a", "-l", "-n"}

\* the FILE_PATH matches that end at token e, by start: every run of path-like
\* tokens ending there
RECURSIVE SpansEndingAt(_, _, _)
SpansEndingAt(doc, s, e) ==
    IF s > e THEN <<>>
    ELSE (IF \A k \in s..e : PathLike(doc[k])
              THEN <<JoinTokens(SubSeq(doc, s, e))>> ELSE <<>>)
         \o SpansEndingAt(doc, s + 1, e)

\* self.entity_matcher(doc): the matched texts in the order reported
RECURSIVE entity_matcher(_, _)
entity_matcher(doc, e) ==
    IF e > Len(doc) THEN <<>>
    ELSE SpansEndingAt(doc, 1, e) \o entity_matcher(doc, e + 1)

\* mutant of _extract_specialized_entities: the paths are also filed as
\* directory paths
_extract_specialized_entities_Directories(doc) ==
    [file_paths |-> entity_matcher(doc, 1),
     directory_paths |-> entity_matcher(doc, 1),
     git_branches |-> <<>>,
     options |-> Select(doc, {t \in Range(doc) : StartsWithDash(t)})]

_extract_specialized_entities(doc) ==
    [file_paths |-> entity_matcher(doc, 1),
     git_branches |-> <<>>,
     options |-> Select(doc, {t \in Range(doc) : StartsWithDash(t)})]

\* one token of the loop of _resolve_references
ResolveToken(doc, k, resolved, context) ==
    IF /\ Lower(doc[k]) \in {"that", "this"}
       /\ k + 1 <= Len(doc)
       /\ Lower(doc[k + 1]) \in {"file", "directory", "folder"}
        THEN LET entity_type == IF Lower(doc[k + 1]) = "file"
                                    THEN "file_paths" ELSE "directory_paths"
             IN  IF entity_type \in DOMAIN context /\ context[entity_type] # <<>>
                     THEN LET base == IF entity_type \in DOMAIN resolved
                                          THEN resolved
                                          ELSE (entity_type :> <<>>) @@ resolved
                          IN  [base EXCEPT ![entity_type] =
                                   Append(@, context[entity_type][1])]
                     ELSE resolved
        ELSE resolved

RECURSIVE ResolveFrom(_, _, _, _)
ResolveFrom(doc, k, resolved, context) ==
    IF k > Len(doc) THEN resolved
    ELSE ResolveFrom(doc, k + 1, ResolveToken(doc, k, resolved, context), context)

\* _resolve_references: the resolved entities
_resolve_references(doc, entities, context) ==
    LET has_reference == \E k \in 1..Len(doc) :
                             Lower(doc[k]) \in {"that", "this", "it", "those"}
    IN  IF has_reference /\ DOMAIN context # {}
            THEN ResolveFrom(doc, 1, entities, context)
            ELSE entities

\* entities.copy() is shallow: the lists of the keys all_entities already has
\* are shared, so what was appended to them shows in all_entities too
SharedLists(entities, resolved) == [c \in DOMAIN entities |-> resolved[c]]

_format_args_for_action(action_id, entities) ==
    LET has(c) == c \in DOMAIN entities /\ entities[c] # <<>>
        positional ==
            IF action_id \in {"change_directory", "make_directory", "delete_directory"}
                THEN IF has("directory_paths") THEN <<entities["directory_paths"][1]>>
                     ELSE IF has("file_paths") THEN <<entities["file_paths"][1]>>
                     ELSE <<>>
            ELSE IF action_id \in {"create_file", "delete_file", "display_file"}
                THEN IF has("file_paths") THEN <<entities["file_paths"][1]>> ELSE <<>>
            ELSE IF action_id \in {"move_rename", "copy_file"}
                THEN IF "file_paths" \in DOMAIN entities /\ Len(entities["file_paths"]) >= 2
                         THEN SubSeq(entities["file_paths"], 1, 2) ELSE <<>>
            ELSE <<>>
    IN  positional \o (IF "options" \in DOMAIN entities THEN entities["options"] ELSE <<>>)

\* _extract_arguments
_extract_arguments(doc, action_id, context) ==
    LET basic_entities == _extract_basic_entities(doc)
        specialized_entities == _extract_specialized_entities(doc)
        all_entities == specialized_entities @@ basic_entities
        resolved_entities == _resolve_references(doc, all_entities, context)
    IN  [raw_entities |-> SharedLists(all_entities, resolved_entities),
         resolved_entities |-> resolved_entities,
         formatted_args |-> _format_args_for_action(action_id, resolved_entities)]

\* the values parse_input returns; kind is "None", "unrecognized", "suggest"
\* or "command", and a key the value does not have is None (args: empty)
ParseResult(kind, action, args, entities, text, suggestion_action_id, suggestion_phrase) ==
    [kind |-> kind, action |-> action, args |-> args, entities |-> entities,
     original_text |-> text, suggestion_action_id |-> suggestion_action_id,
     suggestion_phrase |-> suggestion_phrase]

NoEntities == [c \in {} |-> <<>>]

\* CommandHistory.add_command: the entity context after the command
UpdateEntities(context, entities) ==
    LET filled == {c \in DOMAIN entities : entities[c] # <<>>}
    IN  [c \in DOMAIN context \cup filled |->
            IF c \in filled THEN entities[c] ELSE context[c]]

\* mutant of AddCommand: a full history drops the command just added
AddCommand_EvictNewest(list, command) ==
    IF Len(list) + 1 > history_size THEN list ELSE Append(list, command)

\* CommandHistory.add_command: the command list after the command
AddCommand(list, command) ==
    LET appended == Append(list, command)
    IN  IF Len(appended) > history_size THEN Tail(appended) ELSE appended

\* mutant of UpdateFrequency: the count is set to one, not incremented
UpdateFrequency_Once(frequencies, action_id) == (action_id :> 1) @@ frequencies

\* _update_command_frequency
UpdateFrequency(frequencies, action_id) ==
    IF action_id \in DOMAIN frequencies
        THEN [frequencies EXCEPT ![action_id] = @ + 1]
        ELSE (action_id :> 1) @@ frequencies

\* the parser's state as one value
ParserState(cmds, entities, learning) ==
    [commands |-> cmds, last_entities |-> entities, learning_data |-> learning]

\* parse_input(text) in parser state st, with best the scorer's best match:
\* the value returned, the state after, and what the call did on the way
parse_input(st, doc, best) ==
    LET context == st.last_entities
        exact_match == ExactMatch(doc)
        scored == exact_match = None
        fuzzy == IF scored
                     THEN FuzzyDecision(extractOne(best, fuzzy_match_threshold_suggest))
                     ELSE [action_id |-> exact_match, suggestion_action_id |-> None,
                           suggestion_phrase |-> None]
        learned_action == _check_learning_data(doc, st.learning_data.user_corrections)
        action_id == ApplyLearning(fuzzy.action_id, learned_action)
    IN  IF IsBlank(doc)
            THEN [ret |-> ParseResult("None", "", <<>>, NoEntities, None, None, None),
                  st |-> st, scored |-> FALSE, learned |-> None]
        ELSE IF action_id = None /\ fuzzy.suggestion_action_id = None
            THEN [ret |-> ParseResult("unrecognized", "unrecognized", <<>>, NoEntities,
                                      None, None, None),
                  st |-> st, scored |-> scored, learned |-> learned_action]
        ELSE IF action_id = None
            THEN [ret |-> ParseResult("suggest", "suggest", <<>>, NoEntities, None,
                                      fuzzy.suggestion_action_id, fuzzy.suggestion_phrase),
                  st |-> st, scored |-> scored, learned |-> learned_action]
        ELSE LET entity_data == _extract_arguments(doc, action_id[1], context)
                 command_structure ==
                     ParseResult("command", action_id[1], entity_data.formatted_args,
                                 entity_data.raw_entities, Some(doc), None, None)
             IN  [ret |-> command_structure,
                  st |-> ParserState(
                      AddCommand(st.commands, command_structure),
                      UpdateEntities(st.last_entities, entity_data.raw_entities),
                      [st.learning_data EXCEPT !.command_frequencies =
                           UpdateFrequency(@, action_id[1])]),
                  scored |-> scored, learned |-> learned_action]

\* mutant of SetCorrection: the dict is replaced by one holding the new key only
SetCorrection_Only(user_corrections, doc, correct_action) ==
    <<[source |-> doc, action |-> correct_action]>>

\* user_corrections[command_text] = correct_action: a new key goes last, an
\* old key keeps its place
SetCorrection(user_corrections, doc, correct_action) ==
    IF \E k \in 1..Len(user_corrections) : user_corrections[k].source = doc
        THEN [k \in 1..Len(user_corrections) |->
                 IF user_corrections[k].source = doc
                     THEN [source |-> doc, action |-> correct_action]
                     ELSE user_corrections[k]]
        ELSE Append(user_corrections, [source |-> doc, action |-> correct_action])

\* record_feedback: the learning data after; correct_action is None or an action
record_feedback(learning, doc, was_correct, correct_action) ==
    IF was_correct
        THEN [learning EXCEPT !.successful_parses = @ \cup {doc}]
    ELSE IF correct_action # None
        THEN [learning EXCEPT !.misinterpreted_commands = Append(@, doc),
                              !.user_corrections = SetCorrection(@, doc, correct_action[1])]
    ELSE [learning EXCEPT !.misinterpreted_commands = Append(@, doc)]

\* _load_learning_data when there is no file
EmptyLearningData ==
    [successful_parses |-> {}, misinterpreted_commands |-> <<>>,
     user_corrections |-> <<>>, command_frequencies |-> [a \in {} |-> 0]]

\* what is kept of a parse_input call: the state it ran in and what it did
CallRecord(st, doc, best, r) ==
    [made |-> TRUE, text |-> doc, best |-> best, context |-> st.last_entities,
     corrections |-> st.learning_data.user_corrections, scored |-> r.scored,
     learned |-> r.learned, ret |-> r.ret]

NoCall ==
    [made |-> FALSE, text |-> <<>>, best |-> NotScored, context |-> NoEntities,
     corrections |-> <<>>, scored |-> FALSE, learned |-> None,
     ret |-> ParseResult("None", "", <<>>, NoEntities, None, None, None)]

\* the scorer's possible answers for a text; one placeholder when parse_input
\* does not reach the scorer
BestChoices(doc) ==
    IF IsBlank(doc) \/ ExactMatch(doc) # None THEN {NotScored} ELSE WRatioBest(doc)

InitParser ==
    /\ commands = <<>>
    /\ last_entities = NoEntities
    /\ learning_data = EmptyLearningData
    /\ saved = None
    /\ parses = 0
    /\ feedbacks = 0
    /\ call = NoCall
    /\ added = <<>>

(***************************************************************************)
(* command_pipeline.py: from a text to a stage list.                       *)
(***************************************************************************)
\* A text is the sequence of its atoms: " " is one whitespace character, ","
\* a comma, and every other atom a word (a run of neither).  Two words are
\* never next to one another.
IsWord(atom) == atom \notin {" ", ","}

\* self.nlp(text): the tokens of a text
Tokens(text) == SelectSeq(text, LAMBDA atom : atom # " ")

\* the text that has the tokens of doc with one space between them
RECURSIVE TextOf(_)
TextOf(doc) ==
    IF Len(doc) <= 1 THEN doc ELSE <<doc[1], " ">> \o TextOf(Tail(doc))

RECURSIVE LStrip(_)
LStrip(text) == IF text # <<>> /\ text[1] = " " THEN LStrip(Tail(text)) ELSE text

RECURSIVE RStrip(_)
RStrip(text) ==
    IF text # <<>> /\ text[Len(text)] = " "
        THEN RStrip(SubSeq(text, 1, Len(text) - 1)) ELSE text

\* str.strip()
Strip(text) ==
    RStrip(LStrip(text))

\* pipeline_indicators, as the words the patterns match (any case), which
\* stand one space apart
pipeline_indicators ==
    {<<"and">>, <<"then">>, <<"after", "that">>, <<"next">>, <<"pipe", "to">>,
     <<"pipe", "into">>, <<"send", "to">>, <<"pass", "to">>, <<"follow", "by">>,
     <<"followed", "by">>, <<"with", "the", "result">>}

\* the atoms from k to e are an indicator between word boundaries
IndicatorFrom(text, k, e) ==
    /\ k = 1 \/ ~IsWord(text[k - 1])
    /\ e = Len(text) \/ ~IsWord(text[e + 1])
    /\ \E indicator \in pipeline_indicators :
           /\ e - k + 1 = 2 * Len(indicator) - 1
           /\ \A j \in 1..Len(indicator) : Lower(text[k + 2 * (j - 1)]) = indicator[j]
           /\ \A j \in 1..(Len(indicator) - 1) : text[k + 2 * j - 1] = " "

\* the length in atoms of the indicator that starts at atom k, or 0
IndicatorAt(text, k) ==
    LET lens == {n \in {1, 3, 5} : k + n - 1 <= Len(text) /\ IndicatorFrom(text, k, k + n - 1)}
    IN  IF lens = {} THEN 0 ELSE CHOOSE n \in lens : TRUE

\* detect_pipeline: pipeline_pattern.search(text)
detect_pipeline(text) == \E k \in 1..Len(text) : IndicatorAt(text, k) > 0

\* text.split(special_token) after the substitutions, from atom k on; piece is
\* the one being read
RECURSIVE SplitFrom(_, _, _)
SplitFrom(text, k, piece) ==
    IF k > Len(text) THEN <<piece>>
    ELSE IF IndicatorAt(text, k) > 0
        THEN <<piece>> \o SplitFrom(text, k + IndicatorAt(text, k), <<>>)
    ELSE SplitFrom(text, k + 1, Append(piece, text[k]))

\* mutant of StripAll: only the left side of each piece is trimmed
StripAll_Left(pieces) ==
    [k \in 1..Len(pieces) |-> LStrip(pieces[k])]

\* [stage.strip() for stage in ...]
StripAll(pieces) ==
    [k \in 1..Len(pieces) |-> Strip(pieces[k])]

\* split_pipeline_stages: the stripped pieces that are not empty, in order
split_pipeline_stages(text) ==
    SelectSeq(StripAll(SplitFrom(text, 1, <<>>)), LAMBDA piece : piece # <<>>)

\* mutant of KeepsStage: every parsed piece becomes a stage
KeepsStage_Everything(cmd) ==
    cmd.kind # "None"

\* "if cmd and 'action' in cmd and cmd['action'] not in [...]" of the loop
KeepsStage(cmd) ==
    cmd.kind # "None" /\ cmd.action \notin {"unrecognized", "suggest", "error"}

\* what is kept of one parse_input call made by parse_pipeline
StageCall(st, doc, best, r) == [before |-> st, text |-> doc, best |-> best, r |-> r]

\* the stage list, parser state and calls of a piece followed by the rest
WithStage(keep, call_made, rest) ==
    [pipeline |-> (IF keep
                       THEN <<PipelineStage(call_made.r.ret.action, call_made.r.ret.args)>>
                       ELSE <<>>) \o rest.pipeline,
     st |-> rest.st,
     calls |-> <<call_made>> \o rest.calls]

\* the loop of parse_pipeline from piece k on, in parser state st: the stages,
\* the parser state after, and the parse_input calls made
RECURSIVE ParseStages(_, _, _, _)
RECURSIVE ParseStage(_, _, _, _, _)
ParseStage(st, stage_texts, bests, k, r) ==
    WithStage(KeepsStage(r.ret), StageCall(st, stage_texts[k], bests[k], r),
              ParseStages(r.st, stage_texts, bests, k + 1))

ParseStages(st, stage_texts, bests, k) ==
    IF k > Len(stage_texts) THEN [pipeline |-> <<>>, st |-> st, calls |-> <<>>]
    ELSE ParseStage(st, stage_texts, bests, k, parse_input(st, stage_texts[k], bests[k]))

\* the tokens of each piece
TokensOfAll(pieces) == [k \in 1..Len(pieces) |-> Tokens(pieces[k])]

\* what parse_pipeline hands to parse_input, one after the other
StageTexts(text) ==
    IF detect_pipeline(text) THEN TokensOfAll(split_pipeline_stages(text))
                             ELSE <<Tokens(text)>>

\* parse_pipeline when the text is not a pipeline: r is what parse_input returned
SingleCommand(st, doc, best, r) ==
    WithStage(r.ret.kind # "None", StageCall(st, doc, best, r),
              [pipeline |-> <<>>, st |-> r.st, calls |-> <<>>])

\* parse_pipeline(text) in parser state st
parse_pipeline(st, text, bests) ==
    IF ~detect_pipeline(text)
        THEN SingleCommand(st, Tokens(text), bests[1],
                           parse_input(st, Tokens(text), bests[1]))
        ELSE ParseStages(st, TokensOfAll(split_pipeline_stages(text)), bests, 1)

(***************************************************************************)
(* command_pipeline.py: PipelineDetector.  A pattern that is not anchored  *)
(* at a word boundary also matches inside a longer word: the words that    *)
(* end or begin with what a pattern asks for are listed with it.           *)
(***************************************************************************)
\* words that begin with show, display, list, find, count or sort
BeginsWithVerb == {"show", "shows", "display", "list", "lists", "find", "count",
                   "counts", "sort", "sorted"}

\* words that end with after, then or next
EndsWithSequencer == {"after", "then", "next", "strengthen"}

\* words that end with pipe, send or pass
EndsWithSender == {"pipe", "send", "pass", "bypass"}

\* words that begin with to (and so also those that begin with into)
BeginsWithTo == {"to", "into", "total", "today"}

complex_action_words ==
    {"find", "search", "filter", "count", "sort", "analyze", "organize", "categorize",
     "group", "aggregate"}

\* the atom after the run of one or more spaces that follows atom k, or 0
RECURSIVE AfterSpaces(_, _, _)
AfterSpaces(text, k, seen) ==
    IF k + 1 > Len(text) THEN 0
    ELSE IF text[k + 1] = " " THEN AfterSpaces(text, k + 1, TRUE)
    ELSE IF seen THEN k + 1 ELSE 0

\* atom k is a word of the set, one or more spaces follow, then a word of the
\* other set
WordSpacesWord(text, k, first, second) ==
    /\ Lower(text[k]) \in first
    /\ AfterSpaces(text, k, FALSE) # 0
    /\ Lower(text[AfterSpaces(text, k, FALSE)]) \in second

\* pipeline_patterns: one of the five patterns matches at atom k
PatternAt(text, k) ==
    \/ WordSpacesWord(text, k, {"and"}, BeginsWithVerb)
    \/ /\ WordSpacesWord(text, k, {"and"}, {"then"})
       /\ WordSpacesWord(text, AfterSpaces(text, k, FALSE), {"then"}, BeginsWithVerb)
    \/ WordSpacesWord(text, k, EndsWithSequencer, BeginsWithVerb)
    \/ WordSpacesWord(text, k, EndsWithSender, BeginsWithTo)
    \/ WordSpacesWord(text, k, {"followed"}, {"by", "bypass"})
    \/ /\ WordSpacesWord(text, k, {"with"}, {"the"})
       /\ WordSpacesWord(text, AfterSpaces(text, k, FALSE), {"the"}, {"result", "results"})

\* mutant of action_count: the words are compared with their case
action_count_CaseSensitive(text) ==
    Cardinality({word \in complex_action_words :
                    \E k \in 1..Len(text) : text[k] = word})

\* the number of complex action words that occur in the text as whole words
action_count(text) ==
    Cardinality({word \in complex_action_words :
                    \E k \in 1..Len(text) : Lower(text[k]) = word})

\* text.split(','), from atom k on
RECURSIVE CommaSplitFrom(_, _, _)
CommaSplitFrom(text, k, part) ==
    IF k > Len(text) THEN <<part>>
    ELSE IF text[k] = "," THEN <<part>> \o CommaSplitFrom(text, k + 1, <<>>)
    ELSE CommaSplitFrom(text, k + 1, Append(part, text[k]))

\* action_patterns: a part with list, show, find, get, display, count, sort,
\* files or text as a whole word
IsActionPart(part) ==
    \E k \in 1..Len(part) :
        Lower(part[k]) \in {"list", "show", "find", "get", "display", "count", "sort",
                            "files", "text"}

\* the comma rule of is_pipeline on the stripped parts
CommaRule(parts) ==
    /\ Len(parts) >= 3
    /\ Len(SelectSeq(parts, IsActionPart)) >= 2

\* PipelineDetector.is_pipeline
is_pipeline(text) ==
    \/ \E k \in 1..Len(text) : PatternAt(text, k)
    \/ action_count(text) >= 2
    \/ CommaRule(StripAll(CommaSplitFrom(text, 1, <<>>)))

(***************************************************************************)
(* State after construction, and the executor's steps.                     *)
(***************************************************************************)
InitText ==
    /\ utterance = <<>>
    /\ split_result = None
    /\ detector_result = None

\* what is kept of a front end's handling of an utterance: the action
\* parse_input returned, whether the user was asked and agreed, the actions
\* given to execute_command, and the history and learning data before
FrontRecord(who, action, asked, confirmed, executed, cmds, learning) ==
    [who |-> who, action |-> action, asked |-> asked, confirmed |-> confirmed,
     executed |-> executed, commands_before |-> cmds, learning_before |-> learning]

InitFront ==
    /\ verbose = FALSE
    /\ show_command_preview = TRUE
    /\ learning_mode = TRUE
    /\ settings_call = None
    /\ auto_suggest = FALSE
    /\ front = FrontRecord("", "", FALSE, FALSE, <<>>, <<>>, EmptyLearningData)

Init ==
    /\ InitParser
    /\ InitText
    /\ InitFront
    /\ pc = "idle"
    /\ pipeline = <<>>
    /\ pipeline0 = <<>>
    /\ i = 0
    /\ current_input = None
    /\ stages_executed = 0
    /\ temp_files = <<>>
    /\ fs = {}
    /\ ended = "no"
    /\ result = NoResult
    /\ mapped = <<>>
    /\ native_cmds = <<>>
    /\ log = <<>>

\* a call of execute_pipeline(p) begins; a call keeps nothing from an earlier
\* call (every variable it uses is a local), so a behaviour follows one call
Enter(p) ==
    /\ pc' = "ready"
    /\ pipeline' = p
    /\ pipeline0' = p
    /\ i' = 0
    /\ current_input' = None
    /\ stages_executed' = 0
    /\ temp_files' = <<>>
    /\ fs' = {}
    /\ ended' = "no"
    /\ result' = NoResult
    /\ mapped' = <<>>
    /\ native_cmds' = <<>>
    /\ log' = <<>>

\* the call ends by returning r; files is the filesystem before the finally block
Return(r, files, names) ==
    /\ pc' = "done"
    /\ ended' = "returned"
    /\ result' = r
    /\ fs' = Unlink(files, names)

\* the call ends by an exception that leaves execute_pipeline
Raise(files, names) ==
    /\ pc' = "done"
    /\ ended' = "raised"
    /\ result' = NoResult
    /\ fs' = Unlink(files, names)

\* a caller passes a stage list of its own making
CallDirect(p) ==
    /\ UNCHANGED <<parserVars, otherVars>>
    /\ pc = "idle"
    /\ Enter(p)

\* execute_pipeline: "if not pipeline"
ExecuteEmpty ==
    /\ UNCHANGED <<parserVars, otherVars>>
    /\ pc = "ready"
    /\ pipeline = <<>>
    /\ Return(EmptyPipelineResult, fs, temp_files)
    /\ UNCHANGED <<pipeline, pipeline0, i, current_input, stages_executed,
                   temp_files, mapped, native_cmds, log>>

\* execute_pipeline: "if len(pipeline) == 1"
ExecuteSingle(ex) ==
    /\ UNCHANGED <<parserVars, otherVars>>
    /\ pc = "ready"
    /\ Len(pipeline) = 1
    /\ LET stage == pipeline[1]
           r == _execute_single_command(ex)
       IN  /\ log' = Append(log, Invocation(0, "executor", stage.action, stage.args,
                                            None, None, ex.kind = "interrupt", r, ex))
           /\ IF ex.kind = "interrupt" THEN Raise(fs, temp_files)
                                       ELSE Return(r, fs, temp_files)
    /\ UNCHANGED <<pipeline, pipeline0, i, current_input, stages_executed,
                   temp_files, mapped, native_cmds>>

\* execute_pipeline: two or more stages, _execute_multi_stage_pipeline begins
ExecuteMulti ==
    /\ UNCHANGED <<parserVars, otherVars>>
    /\ pc = "ready"
    /\ Len(pipeline) > 1
    /\ pc' = "run"
    /\ UNCHANGED <<pipeline, pipeline0, i, current_input, stages_executed,
                   temp_files, fs, ended, result, mapped, native_cmds, log>>

\* one iteration of the loop, "if native_cmd" branch
StageNative(proc) ==
    /\ UNCHANGED <<parserVars, otherVars>>
    /\ pc = "run"
    /\ i < Len(pipeline)
    /\ LET stage == pipeline[i + 1]
           native_cmd == _map_to_native_command(stage, current_input,
                                                i = Len(pipeline) - 1)
           r == _execute_native_command(current_input, proc)
       IN  /\ native_cmd # None
           /\ mapped' = Append(mapped, stage)
           /\ native_cmds' = Append(native_cmds, native_cmd)
           /\ log' = Append(log, Invocation(i, "process", stage.action, native_cmd[1],
                                            current_input, NativeStdin(current_input),
                                            FALSE, r, proc))
           /\ current_input' = Some(r.stdout)
           /\ stages_executed' = stages_executed + 1
           /\ IF ~r.success
                  THEN /\ Return(FailedStageResult(r, r.stdout, stages_executed + 1, i), fs,
                              temp_files)
                       /\ i' = i
                  ELSE /\ i' = NextIndex(i)
                       /\ UNCHANGED <<pc, ended, result, fs>>
    /\ UNCHANGED <<pipeline, pipeline0, temp_files>>

\* one iteration of the loop, "else" branch: no native mapping
StageFallback(tmp, ex) ==
    /\ UNCHANGED <<parserVars, otherVars>>
    /\ pc = "run"
    /\ i < Len(pipeline)
    /\ current_input = None => tmp = "ok"
    /\ LET stage == pipeline[i + 1]
           name == TempName(i)
           has_input == current_input # None
           created == IF has_input /\ tmp # "create_fails"
                          THEN fs \cup {[name |-> name, content |-> current_input[1]]}
                          ELSE fs
           args == IF has_input /\ IsOutputConsuming(stage.action)
                       THEN <<name>> ELSE stage.args
           registered == IF has_input THEN Append(temp_files, name) ELSE temp_files
           r == _execute_single_command(ex)
           native_cmd == _map_to_native_command(stage, current_input,
                                                i = Len(pipeline) - 1)
       IN  /\ native_cmd = None
           /\ mapped' = Append(mapped, stage)
           /\ native_cmds' = Append(native_cmds, native_cmd)
           /\ IF tmp # "ok"
                  THEN \* raised before temp_files.append and before the executor runs
                       /\ Raise(created, temp_files)
                       /\ UNCHANGED <<pipeline, i, current_input, stages_executed,
                                      temp_files, log>>
                  ELSE /\ temp_files' = IF has_input THEN Append(temp_files, name)
                                        ELSE temp_files
                       /\ pipeline' = [pipeline EXCEPT ![i + 1].args = args]
                       /\ log' = Append(log, Invocation(i, "executor", stage.action, args,
                                                        current_input, None,
                                                        ex.kind = "interrupt", r, ex))
                       /\ IF ex.kind = "interrupt"
                              THEN /\ Raise(created, registered)
                                   /\ UNCHANGED <<i, current_input, stages_executed>>
                              ELSE /\ current_input' = Some(r.stdout)
                                   /\ stages_executed' = stages_executed + 1
                                   /\ IF ~r.success
                                          THEN /\ Return(FailedStageResult(r, r.stdout,
                                                             stages_executed + 1, i),
                                                      created, registered)
                                               /\ i' = i
                                          ELSE /\ i' = NextIndex(i)
                                               /\ fs' = created
                                               /\ UNCHANGED <<pc, ended, result>>
    /\ UNCHANGED pipeline0

\* the loop is over: "All stages executed successfully"
Finish ==
    /\ UNCHANGED <<parserVars, otherVars>>
    /\ pc = "run"
    /\ i = Len(pipeline)
    /\ Return(AllStagesResult(current_input, stages_executed), fs, temp_files)
    /\ UNCHANGED <<pipeline, pipeline0, i, current_input, stages_executed,
                   temp_files, mapped, native_cmds, log>>

NextExec ==
    \/ \E p \in Pipelines : CallDirect(p)
    \/ ExecuteEmpty
    \/ \E ex \in ExecutorOutcomes : ExecuteSingle(ex)
    \/ ExecuteMulti
    \/ \E proc \in ProcessOutcomes : StageNative(proc)
    \/ \E tmp \in TempOutcomes, ex \in ExecutorOutcomes : StageFallback(tmp, ex)
    \/ Finish

SpecExec == Init /\ [][NextExec]_vars

(***************************************************************************)
(* The native-mapping step on its own: _map_to_native_command called with  *)
(* any stage, any carried input and either value of is_last_stage.         *)
(***************************************************************************)
MapActions == {"list_files", "display_file", "count_lines", "sort_lines", "grep",
               "find_text", "cat", "show_path"}

MapArgs == {<<>>, <<"f.txt">>, <<"-r", "f.txt">>}

\* CommandPipeline._map_to_native_command(stage, input_data, is_last_stage)
MapToNative(stage, input_data, is_last_stage) ==
    /\ pc = "idle"
    /\ Len(mapped) < MaxMapped
    /\ mapped' = Append(mapped, stage)
    /\ native_cmds' = Append(native_cmds,
                             _map_to_native_command(stage, input_data, is_last_stage))
    /\ UNCHANGED <<pc, pipeline, pipeline0, i, current_input, stages_executed,
                   temp_files, fs, ended, result, log, parserVars, otherVars>>

NextMap ==
    \E a \in MapActions, g \in MapArgs, input_data \in {None} \cup {Some(o) : o \in Outputs},
       is_last_stage \in BOOLEAN :
        MapToNative(PipelineStage(a, g), input_data, is_last_stage)

SpecMap == Init /\ [][NextMap]_vars

(***************************************************************************)
(* The parser's operations.                                                *)
(***************************************************************************)
\* parse_input has returned r: what the call leaves behind
Parsed(doc, best, r) ==
    /\ commands' = r.st.commands
    /\ last_entities' = r.st.last_entities
    /\ learning_data' = r.st.learning_data
    /\ saved' = IF r.ret.kind = "command" THEN Some(r.st.learning_data) ELSE saved
    /\ call' = CallRecord(ParserState(commands, last_entities, learning_data), doc, best, r)
    /\ added' = IF r.ret.kind = "command" THEN Append(added, r.ret) ELSE added

\* EnhancedParser.parse_input(text)
ParseInput(doc, best) ==
    /\ parses < MaxParses
    /\ Parsed(doc, best,
              parse_input(ParserState(commands, last_entities, learning_data), doc, best))
    /\ parses' = parses + 1
    /\ UNCHANGED <<feedbacks, execVars, otherVars>>

\* record_feedback has run: what the call leaves behind
RecordedFeedback(doc, was_correct, correct_action) ==
    /\ learning_data' = record_feedback(learning_data, doc, was_correct, correct_action)
    /\ saved' = Some(learning_data')
    /\ feedbacks' = feedbacks + 1
    /\ UNCHANGED <<commands, last_entities, parses, call, added, execVars, otherVars>>

\* EnhancedParser.record_feedback(command_text, was_correct, correct_action)
RecordFeedback(doc, was_correct, correct_action) ==
    /\ feedbacks < MaxFeedback
    /\ RecordedFeedback(doc, was_correct, correct_action)

NextParser ==
    \/ \E doc \in Utterances : \E best \in BestChoices(doc) : ParseInput(doc, best)
    \/ \E doc \in FeedbackTexts : RecordFeedback(doc, TRUE, None)
    \/ \E doc \in FeedbackTexts, correct_action \in {None} \cup {Some(a) : a \in CorrectActions} :
            RecordFeedback(doc, FALSE, correct_action)

SpecParser == Init /\ [][NextParser]_vars

(***************************************************************************)
(* The learning record over longer runs of feedback: two utterances, any   *)
(* feedback on them, and parses between.                                   *)
(***************************************************************************)
LearningTexts == {<<"List", "files">>, <<"display", "that", "file">>}

\* EnhancedParser.record_feedback, up to MaxCorrections calls
LearnFeedback(doc, was_correct, correct_action) ==
    /\ feedbacks < MaxCorrections
    /\ RecordedFeedback(doc, was_correct, correct_action)

NextLearning ==
    \/ \E doc \in LearningTexts : \E best \in BestChoices(doc) : ParseInput(doc, best)
    \/ \E doc \in LearningTexts : LearnFeedback(doc, TRUE, None)
    \/ \E doc \in LearningTexts, correct_action \in {None} \cup {Some(a) : a \in CorrectActions} :
            LearnFeedback(doc, FALSE, correct_action)

SpecLearning == Init /\ [][NextLearning]_vars

(***************************************************************************)
(* The command history on its own: add_command called with any commands.   *)
(***************************************************************************)
\* command dicts a caller may add
HistoryCommands ==
    {ParseResult("command", "list_files", <<>>, NoEntities, Some(<<"ls">>), None, None),
     ParseResult("command", "display_file", <<"a.txt">>, "file_paths" :> <<"a.txt">>,
                 Some(<<"display", "a.txt">>), None, None)}

\* CommandHistory.add_command(command_dict)
add_command(command_dict) ==
    /\ Len(added) < MaxAdds
    /\ commands' = AddCommand(commands, command_dict)
    /\ last_entities' = UpdateEntities(last_entities, command_dict.entities)
    /\ added' = Append(added, command_dict)
    /\ UNCHANGED <<learning_data, saved, parses, feedbacks, call, execVars, otherVars>>

NextHistory == \E command_dict \in HistoryCommands : add_command(command_dict)

SpecHistory == Init /\ [][NextHistory]_vars

(***************************************************************************)
(* The splitter and the detector on their own: a text is typed atom by     *)
(* atom, or taken whole from the examples, and then given to one of them.  *)
(***************************************************************************)
\* the words that are typed
TextWords == {"list", "And", "Count", "sort", "files"}

\* utterances of the tests and of the documentation
ExampleTexts ==
    {TextOf(<<"list", "files", "and", "count", "lines">>),
     TextOf(<<"search", "for", "'error'", "in", "logs", "and", "save", "to",
              "report.txt">>),
     TextOf(<<"list", "files", "send", "to", "count", "lines">>),
     TextOf(<<"send", "total">>)}

\* no call has been made yet
NotCalled == split_result = None /\ detector_result = None

WordCount(text) == Len(SelectSeq(text, IsWord))

LastAtom(text) == IF text = <<>> THEN " " ELSE text[Len(text)]

\* the user types a word
TypeWord(word) ==
    /\ NotCalled
    /\ WordCount(utterance) < MaxWords
    /\ ~IsWord(LastAtom(utterance))
    /\ utterance' = Append(utterance, word)
    /\ UNCHANGED <<split_result, detector_result, execVars, parserVars, frontVars>>

\* the user types a space after a word, or a second one
TypeSpace ==
    /\ NotCalled
    /\ utterance # <<>>
    /\ \/ IsWord(LastAtom(utterance))
       \/ LastAtom(utterance) = " " /\ IsWord(utterance[Len(utterance) - 1])
    /\ utterance' = Append(utterance, " ")
    /\ UNCHANGED <<split_result, detector_result, execVars, parserVars, frontVars>>

\* the user types a comma after a word
TypeComma ==
    /\ NotCalled
    /\ utterance # <<>>
    /\ IsWord(LastAtom(utterance))
    /\ utterance' = Append(utterance, ",")
    /\ UNCHANGED <<split_result, detector_result, execVars, parserVars, frontVars>>

\* the user gives an example utterance
TypeExample(text) ==
    /\ NotCalled
    /\ utterance = <<>>
    /\ utterance' = text
    /\ UNCHANGED <<split_result, detector_result, execVars, parserVars, frontVars>>

\* CommandPipeline.split_pipeline_stages(utterance)
SplitStages ==
    /\ NotCalled
    /\ split_result' = Some(split_pipeline_stages(utterance))
    /\ UNCHANGED <<utterance, detector_result, execVars, parserVars, frontVars>>

\* PipelineDetector.is_pipeline(utterance), and what detect_pipeline says of it
IsPipeline ==
    /\ NotCalled
    /\ detector_result' = Some([is_pipeline |-> is_pipeline(utterance),
                                detect_pipeline |-> detect_pipeline(utterance)])
    /\ UNCHANGED <<utterance, split_result, execVars, parserVars, frontVars>>

NextText ==
    \/ \E word \in TextWords : TypeWord(word)
    \/ TypeSpace
    \/ TypeComma
    \/ \E text \in ExampleTexts : TypeExample(text)
    \/ SplitStages
    \/ IsPipeline

SpecText == Init /\ [][NextText]_vars

(***************************************************************************)
(* A front end: parse_pipeline, then execute_pipeline on what it returned. *)
(***************************************************************************)
\* three operations separated by commas, with "and" before the last
CommaListText ==
    <<"ls", ",", " ", "List", " ", "files", ",", " ", "and", " ", "ls">>

\* texts a user may type at a front end
PipelineTexts ==
    {TextOf(<<"and">>),
     TextOf(<<"lst", "files">>),
     TextOf(<<"List", "files">>),
     TextOf(<<"List", "files", "and", "lst", "files">>),
     TextOf(<<"List", "files", "and", "lst", "files", "then", "List", "files">>),
     TextOf(<<"lst", "files", "then", "display", "that", "file">>),
     CommaListText}

\* the scorer's answers for the pieces of a text, one for each piece
BestsFor(text) ==
    LET stage_texts == StageTexts(text)
    IN  {bests \in [1..Len(stage_texts) ->
                        UNION {BestChoices(stage_texts[k]) : k \in 1..Len(stage_texts)}] :
            \A k \in 1..Len(stage_texts) : bests[k] \in BestChoices(stage_texts[k])}

\* the commands the calls of parse_input gave to add_command, in order
RECURSIVE CommandsOf(_)
CommandsOf(calls) ==
    IF calls = <<>> THEN <<>>
    ELSE (IF calls[1].r.ret.kind = "command" THEN <<calls[1].r.ret>> ELSE <<>>)
         \o CommandsOf(Tail(calls))

\* parse_pipeline has returned: what its parse_input calls leave behind
StoreParsed(parsed, made) ==
    /\ commands' = parsed.st.commands
    /\ last_entities' = parsed.st.last_entities
    /\ learning_data' = parsed.st.learning_data
    /\ saved' = IF parsed.st.learning_data # learning_data
                    THEN Some(parsed.st.learning_data) ELSE saved
    /\ parses' = parses + made
    /\ call' = IF made = 0 THEN call
               ELSE CallRecord(parsed.calls[made].before, parsed.calls[made].text,
                               parsed.calls[made].best, parsed.calls[made].r)
    /\ added' = added \o CommandsOf(parsed.calls)
    /\ UNCHANGED feedbacks

\* the front end has parsed the text and calls execute_pipeline
CallParsed(parsed, made) ==
    /\ StoreParsed(parsed, made)
    /\ Enter(parsed.pipeline)
    /\ UNCHANGED <<split_result, detector_result, frontVars>>

\* pipeline = parse_pipeline(text); execute_pipeline(pipeline)
ParseAndCall(text, bests) ==
    /\ pc = "idle"
    /\ utterance' = text
    /\ CallParsed(parse_pipeline(ParserState(commands, last_entities, learning_data),
                                 text, bests),
                  Len(StageTexts(text)))

NextPipeline ==
    \/ \E doc \in FeedbackTexts, correct_action \in {Some(a) : a \in CorrectActions} :
            RecordFeedback(doc, FALSE, correct_action)
    \/ \E text \in PipelineTexts : \E bests \in BestsFor(text) : ParseAndCall(text, bests)
    \/ ExecuteEmpty
    \/ \E ex \in ExecutorOutcomes : ExecuteSingle(ex)
    \/ ExecuteMulti
    \/ \E proc \in ProcessOutcomes : StageNative(proc)
    \/ \E tmp \in TempOutcomes, ex \in ExecutorOutcomes : StageFallback(tmp, ex)
    \/ Finish

SpecPipeline == Init /\ [][NextPipeline]_vars

(***************************************************************************)
(* enhanced_interface.py and zyntax_tester.py: the two front ends.         *)
(***************************************************************************)
\* words that begin with "verbose", "preview" or "feedback"
StartsWithSetting == {"verbose", "preview", "feedback", "verbosity", "previews"}

\* ZyntaxInterface.handle_settings_command(command): the value returned and
\* the two flags after
handle_settings_command(command, was_verbose, was_preview) ==
    IF /\ command # <<>>
       /\ command[1] \in StartsWithSetting
       /\ Len(Tokens(command)) = 2
       /\ Tokens(command)[2] \in {"on", "off"}
        THEN [ret |-> TRUE,
              verbose |-> IF Tokens(command)[1] = "verbose"
                              THEN Tokens(command)[2] = "on" ELSE was_verbose,
              show_command_preview |-> IF Tokens(command)[1] = "preview"
                                           THEN Tokens(command)[2] = "on" ELSE was_preview]
        ELSE [ret |-> FALSE, verbose |-> was_verbose, show_command_preview |-> was_preview]

\* what a user may type as a settings command
SettingsInputs ==
    {<<name, " ", value>> : name \in {"verbose", "preview", "feedback"},
                            value \in {"on", "off"}}
    \cup {<<"verbosity", " ", "on">>, <<"verbose", " ", " ", "on">>,
          <<"Verbose", " ", "on">>, <<"verbose">>, <<"verbose", " ", "on", " ", "on">>,
          <<" ", "verbose", " ", "on">>, <<"list", " ", "files">>}

\* what is kept of a handle_settings_command call: the value returned and the
\* flags before
SettingsCall(text, was_verbose, was_preview, was_learning) ==
    Some([ret |-> handle_settings_command(text, was_verbose, was_preview).ret,
          verbose_before |-> was_verbose, preview_before |-> was_preview,
          learning_before |-> was_learning])

\* the terminal is given a line that handle_settings_command may handle
HandleSettings(text) ==
    /\ pc = "idle"
    /\ front.who # "tester"
    /\ utterance' = text
    /\ settings_call' = SettingsCall(text, verbose, show_command_preview, learning_mode)
    /\ verbose' = handle_settings_command(text, verbose, show_command_preview).verbose
    /\ show_command_preview' =
          handle_settings_command(text, verbose, show_command_preview).show_command_preview
    /\ UNCHANGED <<learning_mode, auto_suggest, front, split_result, detector_result,
                   execVars, parserVars>>

\* texts typed at a front end
FrontTexts ==
    {TextOf(<<"find", "sort", "files">>),
     TextOf(<<"lst", "files">>),
     TextOf(<<"List", "files">>),
     TextOf(<<"pwd", "then", "List", "files">>)}

\* the actions given to execute_command for what parse_input returned, when the
\* user is asked (or not) and answers: a suggestion's action, a command's action
Executed(ret, ask, answer, preview) ==
    IF ret.kind = "suggest" /\ ret.suggestion_action_id # None
        THEN (IF (~ask \/ answer) /\ preview THEN <<ret.suggestion_action_id[1]>> ELSE <<>>)
    ELSE IF ret.kind = "command" /\ preview THEN <<ret.action>>
    ELSE <<>>

\* one turn of AdvancedTerminal.run with a line that is no settings command:
\* r is what parse_input returned and answer what the user says if asked.
\* display_command_preview returns nothing when previews are off, and the
\* command is then not executed.
TerminalParsed(text, best, answer, r) ==
    /\ Parsed(Tokens(text), best, r)
    /\ parses' = parses + 1
    /\ utterance' = text
    /\ front' = FrontRecord("terminal", r.ret.action,
                            r.ret.kind = "suggest" /\ r.ret.suggestion_action_id # None,
                            answer,
                            Executed(r.ret, TRUE, answer, show_command_preview),
                            commands, learning_data)
    /\ settings_call' = SettingsCall(text, verbose, show_command_preview, learning_mode)
    /\ UNCHANGED <<feedbacks, execVars, split_result, detector_result, verbose,
                   show_command_preview, learning_mode, auto_suggest>>

TerminalInput(text, best, answer) ==
    /\ pc = "idle"
    /\ front.who # "tester"
    /\ parses < MaxParses
    /\ ~handle_settings_command(text, verbose, show_command_preview).ret
    /\ TerminalParsed(text, best, answer,
                      parse_input(ParserState(commands, last_entities, learning_data),
                                  Tokens(text), best))

\* ZyntaxTester._handle_settings_command('suggest on') and ('suggest off')
TesterSetting(value) ==
    /\ pc = "idle"
    /\ settings_call = None
    /\ auto_suggest # value
    /\ auto_suggest' = value
    /\ UNCHANGED <<verbose, show_command_preview, learning_mode, settings_call, front,
                   textVars, execVars, parserVars>>

\* ZyntaxTester._process_command when is_pipeline is true: parse_pipeline, then
\* execute_pipeline unless no stage came back
TesterPipeline(text, parsed, made) ==
    /\ StoreParsed(parsed, made)
    /\ utterance' = text
    /\ front' = FrontRecord("tester", "pipeline", FALSE, FALSE, <<>>, commands,
                            learning_data)
    /\ IF parsed.pipeline # <<>> THEN Enter(parsed.pipeline) ELSE UNCHANGED execVars
    /\ UNCHANGED <<split_result, detector_result, verbose, show_command_preview,
                   learning_mode, settings_call, auto_suggest>>

\* ZyntaxTester._process_command when is_pipeline is false: parse_input, then
\* _execute_command, which asks before a suggestion unless auto_suggest is on
TesterSingle(text, best, answer, r) ==
    /\ Parsed(Tokens(text), best, r)
    /\ parses' = parses + 1
    /\ utterance' = text
    /\ front' = FrontRecord("tester", r.ret.action,
                            r.ret.kind = "suggest" /\ ~auto_suggest, answer,
                            Executed(r.ret, ~auto_suggest, answer, TRUE),
                            commands, learning_data)
    /\ UNCHANGED <<feedbacks, execVars, split_result, detector_result, verbose,
                   show_command_preview, learning_mode, settings_call, auto_suggest>>

TesterCommand(text, bests, answer) ==
    /\ pc = "idle"
    /\ settings_call = None
    /\ parses < MaxParses
    /\ IF is_pipeline(text)
          THEN TesterPipeline(text,
                              parse_pipeline(ParserState(commands, last_entities,
                                                         learning_data), text, bests),
                              Len(StageTexts(text)))
          ELSE TesterSingle(text, bests[1], answer,
                            parse_input(ParserState(commands, last_entities, learning_data),
                                        Tokens(text), bests[1]))

\* the scorer's answers for a text parsed whole
BestsWhole(text) == {<<best>> : best \in BestChoices(Tokens(text))}

NextFront ==
    \/ \E text \in SettingsInputs : HandleSettings(text)
    \/ \E text \in FrontTexts, answer \in BOOLEAN :
          \E best \in BestChoices(Tokens(text)) : TerminalInput(text, best, answer)
    \/ \E value \in BOOLEAN : TesterSetting(value)
    \/ \E text \in FrontTexts, answer \in BOOLEAN :
          \E bests \in (IF is_pipeline(text) THEN BestsFor(text) ELSE BestsWhole(text)) :
              TesterCommand(text, bests, answer)
    \/ \E ex \in ExecutorOutcomes : ExecuteSingle(ex)
    \/ ExecuteMulti
    \/ \E proc \in ProcessOutcomes : StageNative(proc)
    \/ \E tmp \in TempOutcomes, ex \in ExecutorOutcomes : StageFallback(tmp, ex)
    \/ Finish

SpecFront == Init /\ [][NextFront]_vars

(***************************************************************************)
(* Claims about the pipeline executor, checked under SpecExec.             *)
(***************************************************************************)
\* the log positions of the stages that returned a failure
FailedEntries == {k \in 1..Len(log) : log[k].returned /\ ~log[k].success}

\* C1: in a pipeline of two or more stages, when stage k is the first to fail
\* the call returns success=false, failed_stage=k, stages_executed=k+1 and
\* that stage's stderr and return code, and no later stage is ever invoked.
C1_HaltsOnFirstFailure ==
    (Len(pipeline0) >= 2 /\ FailedEntries # {}) =>
        LET first == CHOOSE k \in FailedEntries : \A j \in FailedEntries : k <= j
            k == log[first].stage
        IN  /\ pc = "done"
            /\ ended = "returned"
            /\ result.success = FALSE
            /\ result.failed_stage = Some(k)
            /\ result.stages_executed = k + 1
            /\ result.stderr = log[first].stderr
            /\ result.returncode = log[first].returncode
            /\ \A j \in 1..Len(log) : log[j].stage <= k
            /\ Len(mapped) = k + 1

\* a two-stage pipeline whose first stage failed with a process exit code
C1_Witness ==
    /\ pc = "done"
    /\ Len(pipeline0) >= 2
    /\ Len(log) = 1
    /\ log[1].returned /\ ~log[1].success /\ log[1].returncode = Some(2)
    /\ result.failed_stage = Some(0)

\* C2: an empty stage list gives success=false with the 'Empty pipeline' error
\* and stages_executed=0, and neither the executor nor a process is invoked.
C2_EmptyPipeline ==
    (pc = "done" /\ pipeline0 = <<>>) =>
        /\ ended = "returned"
        /\ result.success = FALSE
        /\ result.error = Some("Empty pipeline")
        /\ result.stages_executed = 0
        /\ log = <<>>
        /\ mapped = <<>>

C2_Witness == pc = "done" /\ pipeline0 = <<>> /\ ended = "returned"

\* C3: when every stage of a pipeline of two or more stages succeeds, the
\* result has success=true, the stdout of the last stage, and stages_executed
\* equal to the number of stages.
C3_AllStagesSucceed ==
    (/\ pc = "done"
     /\ Len(pipeline0) >= 2
     /\ Len(log) = Len(pipeline0)
     /\ \A k \in 1..Len(log) : log[k].returned /\ log[k].success) =>
        /\ ended = "returned"
        /\ result.success = TRUE
        /\ result.stdout = log[Len(log)].stdout
        /\ result.stages_executed = Len(pipeline0)
        /\ result.failed_stage = None

\* both stages succeeded, the first printed nothing and the last printed text
C3_Witness ==
    /\ pc = "done"
    /\ Len(pipeline0) >= 2
    /\ Len(log) = Len(pipeline0)
    /\ \A k \in 1..Len(log) : log[k].returned /\ log[k].success
    /\ log[1].stdout = ""
    /\ log[Len(log)].stdout = "out"

\* C4: in a multi-stage pipeline every native stage but the first gets as
\* stdin the stdout of the stage before it (the empty string included), and
\* the first stage gets no input.
C4_NativeStdinIsPreviousStdout ==
    \A k \in 1..Len(log) :
        (Len(pipeline0) >= 2 /\ log[k].via = "process") =>
            IF log[k].stage = 0
                THEN log[k].stdin = None
                ELSE log[k].stdin = Some(log[k - 1].stdout)

\* C5: every temporary file the call created is gone when the call has ended,
\* by a success result, a stage-failure result or an exception.
C5_TempFilesDeleted == pc = "done" => fs = {}

(***************************************************************************)
(* Claims about the front end, checked under SpecPipeline.                 *)
(***************************************************************************)
\* C6: of the stages parse_pipeline returned, none with the action
\* "unrecognized", "suggest" or "error" is given to _map_to_native_command
C6_NoUnresolvedStageMapped ==
    \A k \in 1..Len(mapped) : mapped[k].action \notin {"unrecognized", "suggest", "error"}

\* a text of three pieces whose middle piece did not resolve was parsed, and the
\* two stages left went through the mapping step
C6_Witness ==
    /\ pc = "done"
    /\ parses = 3
    /\ Len(pipeline0) = 2
    /\ Len(mapped) = 2

(***************************************************************************)
(* Claims about the parser, checked under SpecParser.  call is the latest  *)
(* parse_input call: its text, the entity context and the corrections it   *)
(* started with, the scorer's best match, and what it returned.            *)
(***************************************************************************)
\* the corrections, by position, whose source is more than 90 similar to the text
SimilarCorrections(doc, corrections) ==
    {k \in 1..Len(corrections) :
        RatioAbove(LowerText(doc), LowerText(corrections[k].source), 90)}

\* the vocabulary entries, by position, whose phrase of at least n words occurs
\* in the text
PhrasesIn(doc, n) ==
    {k \in 1..Len(action_keywords) :
        /\ Len(action_keywords[k].phrase) >= n
        /\ \E s \in 1..Len(doc), e \in 1..Len(doc) :
               s <= e /\ LowerAll(SubSeq(doc, s, e)) = action_keywords[k].phrase}

C8_ExactMatchWithoutScoring ==
    (call.made /\ PhrasesIn(call.text, 1) # {}) =>
        /\ call.ret.kind = "command"
        /\ \E k \in PhrasesIn(call.text, 1) : call.ret.action = action_keywords[k].action
        /\ ~call.scored

\* C8 amended: a text that contains a vocabulary phrase of two or more words,
\* and to which no correction is more than 90 similar, gets the action of such
\* a phrase, and the scorer is not called
C8_PhraseMatchWithoutScoring ==
    (/\ call.made
     /\ PhrasesIn(call.text, 2) # {}
     /\ SimilarCorrections(call.text, call.corrections) = {}) =>
        /\ call.ret.kind = "command"
        /\ \E k \in PhrasesIn(call.text, 2) : call.ret.action = action_keywords[k].action
        /\ ~call.scored

\* a text with a two-word phrase was parsed while a correction for a
\* dissimilar text was on record
C8_Witness ==
    /\ call.made
    /\ PhrasesIn(call.text, 2) # {}
    /\ call.corrections # <<>>
    /\ SimilarCorrections(call.text, call.corrections) = {}
    /\ call.ret.kind = "command"

\* the outcome the score bands give for the best match of the call
BandOutcome(c) ==
    /\ c.ret.kind \in {"command", "suggest", "unrecognized"}
    /\ c.best.score >= 90 =>
           /\ c.ret.kind = "command"
           /\ Some(c.ret.action) = KeywordAction(c.best.phrase)
    /\ (65 <= c.best.score /\ c.best.score < 90) =>
           /\ c.ret.kind = "suggest"
           /\ c.ret.suggestion_action_id = KeywordAction(c.best.phrase)
           /\ c.ret.suggestion_phrase = Some(c.best.phrase)
    /\ c.best.score < 65 => c.ret.kind = "unrecognized"

\* C9 as stated: with no phrase match and no similar correction, parse_input
\* returns a command at a score of 90 or more, a suggestion from 65 to below
\* 90, and "unrecognized" below 65
C9_ThreeOutcomes ==
    (/\ call.made
     /\ PhrasesIn(call.text, 2) = {}
     /\ SimilarCorrections(call.text, call.corrections) = {}) =>
        BandOutcome(call)

\* C9 amended: the same, for a text that is not blank
C9_ThreeOutcomesNonBlank ==
    (/\ call.made
     /\ ~IsBlank(call.text)
     /\ PhrasesIn(call.text, 2) = {}
     /\ SimilarCorrections(call.text, call.corrections) = {}) =>
        BandOutcome(call)

\* a text scored exactly 90 became a command
C9_Witness ==
    /\ call.made
    /\ ~IsBlank(call.text)
    /\ PhrasesIn(call.text, 2) = {}
    /\ SimilarCorrections(call.text, call.corrections) = {}
    /\ call.best.score = 90
    /\ call.ret.kind = "command"

\* the text has "that" or "this" right before "file"
RefersToFile(doc) ==
    \E k \in 1..(Len(doc) - 1) :
        Lower(doc[k]) \in {"that", "this"} /\ Lower(doc[k + 1]) = "file"

\* C10: when the entity context holds file paths and a text that refers to
\* "that file" resolves to a single-file action, the command's args are one
\* file path of the context
C10_ThatFileIsContextFile ==
    (/\ call.made
     /\ call.ret.kind = "command"
     /\ call.ret.action \in {"create_file", "delete_file", "display_file"}
     /\ RefersToFile(call.text)
     /\ "file_paths" \in DOMAIN call.context
     /\ call.context["file_paths"] # <<>>) =>
        \E v \in Range(call.context["file_paths"]) : call.ret.args = <<v>>

(***************************************************************************)
(* Claims about the command history, checked under SpecHistory.            *)
(***************************************************************************)
\* the last n elements of a sequence (all of it when it is shorter)
LastOf(q, n) == IF Len(q) <= n THEN q ELSE SubSeq(q, Len(q) - n + 1, Len(q))

\* C11: the history holds at most history_size (10) commands, and they are
\* the most recently added ones in the order they were added
C11_HistoryIsBoundedWindow ==
    /\ Len(commands) <= 10
    /\ commands = LastOf(added, 10)

\* more commands were added than the history holds, so the oldest was evicted
C11_Witness ==
    /\ Len(added) > 10
    /\ commands # added
    /\ commands[Len(commands)] = added[Len(added)]

(***************************************************************************)
(* C12                                                                     *)
(***************************************************************************)
\* the words and commas of the text outside the markers, in order, read from
\* atom k on
RECURSIVE OutsideMarkers(_, _)
OutsideMarkers(text, k) ==
    IF k > Len(text) THEN <<>>
    ELSE IF IndicatorAt(text, k) > 0 THEN OutsideMarkers(text, k + IndicatorAt(text, k))
    ELSE IF text[k] = " " THEN OutsideMarkers(text, k + 1)
    ELSE <<text[k]>> \o OutsideMarkers(text, k + 1)

RECURSIVE Flatten(_)
Flatten(pieces) ==
    IF pieces = <<>> THEN <<>> ELSE Tokens(pieces[1]) \o Flatten(Tail(pieces))

\* the stage texts are trimmed, non-empty, free of markers and hold, left to
\* right, what the utterance holds outside its markers; the documented example
\* gives "list files" and "count lines"
SplitsAtMarkers ==
    split_result # None =>
        /\ \A k \in 1..Len(split_result[1]) :
              /\ split_result[1][k] # <<>>
              /\ Strip(split_result[1][k]) = split_result[1][k]
              /\ ~detect_pipeline(split_result[1][k])
        /\ Flatten(split_result[1]) = OutsideMarkers(utterance, 1)
        /\ utterance = TextOf(<<"list", "files", "and", "count", "lines">>)
              => split_result[1] = <<TextOf(<<"list", "files">>),
                                     TextOf(<<"count", "lines">>)>>

\* C12 as stated: split_pipeline_stages returns, left to right, the trimmed
\* non-empty segments between the markers, and the whole utterance as a single
\* stage when no marker occurs in it.
C12_WholeUtteranceWithoutMarker ==
    /\ SplitsAtMarkers
    /\ (split_result # None /\ ~detect_pipeline(utterance))
          => split_result[1] = <<utterance>>

\* C12 amended: split_pipeline_stages returns, left to right, the trimmed
\* non-empty segments between the markers; when no marker occurs it returns the
\* trimmed utterance as a single stage, and no stage for a blank utterance.
C12_TrimmedUtteranceWithoutMarker ==
    /\ SplitsAtMarkers
    /\ (split_result # None /\ ~detect_pipeline(utterance))
          => split_result[1] = IF Strip(utterance) = <<>> THEN <<>>
                               ELSE <<Strip(utterance)>>

\* an utterance without a marker and with a space at its end has been split
C12_Witness ==
    /\ split_result # None
    /\ ~detect_pipeline(utterance)
    /\ Strip(utterance) # utterance
    /\ split_result[1] = <<Strip(utterance)>>

(***************************************************************************)
(* C13                                                                     *)
(***************************************************************************)
\* the operations a text lists: its parts between commas that are not empty
ListedOperations(text) ==
    SelectSeq(StripAll(CommaSplitFrom(text, 1, <<>>)), LAMBDA part : part # <<>>)

\* C13: for operations separated by commas with "and" before the last one,
\* parse_pipeline returns one stage for each listed operation, in order.
C13_OneStagePerListedOperation ==
    (utterance = CommaListText /\ pc # "idle")
        => /\ Len(pipeline0) = Len(ListedOperations(utterance))
           /\ \A k \in 1..Len(pipeline0) : pipeline0[k].action = "list_files"

(***************************************************************************)
(* C14                                                                     *)
(***************************************************************************)
\* C14: parse_pipeline never returns a stage whose action is "unrecognized",
\* "suggest" or "error", so execute_pipeline on its result never hands such an
\* action to the executor.
C14_NoUnresolvedStageExecuted ==
    /\ \A k \in 1..Len(pipeline0) :
          pipeline0[k].action \notin {"unrecognized", "suggest", "error"}
    /\ \A k \in 1..Len(log) :
          log[k].via = "executor"
              => log[k].action \notin {"unrecognized", "suggest", "error"}

(***************************************************************************)
(* C15                                                                     *)
(***************************************************************************)
\* the complex action words among the words of the text, whatever their case
ComplexWordsIn(text) ==
    {Lower(text[k]) : k \in 1..Len(text)} \cap
        {"find", "search", "filter", "count", "sort", "analyze", "organize",
         "categorize", "group", "aggregate"}

\* C15: is_pipeline is true of every utterance that contains, as whole words
\* and whatever their case, two or more different complex action words.
C15_TwoComplexWordsIsPipeline ==
    (detector_result # None /\ Cardinality(ComplexWordsIn(utterance)) >= 2)
        => detector_result[1].is_pipeline

\* the detector was given "Count" and "sort" with no marker and no comma
C15_Witness ==
    /\ detector_result # None
    /\ Cardinality(ComplexWordsIn(utterance)) = 2
    /\ \E k \in 1..Len(utterance) : utterance[k] = "Count"
    /\ \A k \in 1..Len(utterance) : utterance[k] \notin {"And", ","}
    /\ detector_result[1].is_pipeline

(***************************************************************************)
(* C16                                                                     *)
(***************************************************************************)
\* C16: is_pipeline is true of every utterance in which a connective marker
\* occurs, that is, whenever detect_pipeline is true of it.
C16_MarkerIsPipeline ==
    (detector_result # None /\ detector_result[1].detect_pipeline)
        => detector_result[1].is_pipeline

(***************************************************************************)
(* C17                                                                     *)
(***************************************************************************)
\* the parts of the text between commas that are not empty
NonEmptyParts(text) ==
    SelectSeq(StripAll(CommaSplitFrom(text, 1, <<>>)), LAMBDA part : part # <<>>)

\* C17: is_pipeline is false of every utterance that matches no pattern of the
\* detector, holds fewer than two different complex action words, and does not
\* split on commas into three or more non-empty parts of which two or more are
\* action-shaped.
C17_OtherwiseNotPipeline ==
    ( /\ detector_result # None
      /\ \A k \in 1..Len(utterance) : ~PatternAt(utterance, k)
      /\ Cardinality(ComplexWordsIn(utterance)) < 2
      /\ ~ ( /\ Len(NonEmptyParts(utterance)) >= 3
             /\ Len(SelectSeq(NonEmptyParts(utterance), IsActionPart)) >= 2 ) )
        => ~detector_result[1].is_pipeline

(***************************************************************************)
(* C18                                                                     *)
(***************************************************************************)
\* C18: execute_pipeline on a one-stage pipeline calls the executor once with
\* the stage's action and args, never maps the stage to a native command, and
\* returns a result of the shape of a multi-stage result: a return code,
\* stages_executed equal to the number of stages run and, on failure, the
\* index of the failed stage.
C18_SingleStageSameShape ==
    (pc = "done" /\ ended = "returned" /\ Len(pipeline0) = 1) =>
        /\ Len(log) = 1
        /\ log[1].via = "executor"
        /\ log[1].action = pipeline0[1].action
        /\ log[1].args = pipeline0[1].args
        /\ mapped = <<>>
        /\ result.returncode # None
        /\ result.stages_executed = 1
        /\ ~result.success => result.failed_stage = Some(0)

(***************************************************************************)
(* Claims about the front ends, checked under SpecFront.                   *)
(***************************************************************************)
\* C19: in both front ends an utterance that resolves to "suggest" causes no
\* command to be executed unless the user was asked and confirmed; when the
\* user rejects, nothing is executed and neither the history nor the learning
\* data changes.
C19_SuggestionNeedsConfirmation ==
    /\ \A k \in 1..Len(log) : log[k].via = "executor" => log[k].action # "suggest"
    /\ (front.action = "suggest" /\ front.asked /\ front.executed # <<>>)
          => front.confirmed
    /\ (front.action = "suggest" /\ front.asked /\ ~front.confirmed)
          => /\ front.executed = <<>>
             /\ commands = front.commands_before
             /\ learning_data = front.learning_before

\* the text is exactly a setting's name, one space, and "on" or "off"
ExactSetting(text) ==
    /\ Len(text) = 3
    /\ text[1] \in {"verbose", "preview", "feedback"}
    /\ text[2] = " "
    /\ text[3] \in {"on", "off"}

\* C20: handle_settings_command returns True and sets the named flag when the
\* input is exactly "<verbose|preview|feedback> <on|off>"; for every other
\* input it returns False and leaves every setting as it was.
C20_SettingsCommand ==
    settings_call # None =>
        IF ExactSetting(utterance)
            THEN /\ settings_call[1].ret
                 /\ utterance[1] = "verbose" => verbose = (utterance[3] = "on")
                 /\ utterance[1] = "preview"
                       => show_command_preview = (utterance[3] = "on")
                 /\ utterance[1] = "feedback" => learning_mode = (utterance[3] = "on")
            ELSE /\ ~settings_call[1].ret
                 /\ verbose = settings_call[1].verbose_before
                 /\ show_command_preview = settings_call[1].preview_before
                 /\ learning_mode = settings_call[1].learning_before


(***************************************************************************)
(* C21: the learning record only grows.                                    *)
(***************************************************************************)
\* q is p with zero or more elements appended
IsPrefix(p, q) == Len(p) <= Len(q) /\ SubSeq(q, 1, Len(p)) = p

\* learning record after holds everything learning record before held
OnlyGrows(before, after) ==
    /\ before.successful_parses \subseteq after.successful_parses
    /\ IsPrefix(before.misinterpreted_commands, after.misinterpreted_commands)
    /\ Len(before.user_corrections) <= Len(after.user_corrections)
    /\ \A k \in 1..Len(before.user_corrections) :
           after.user_corrections[k].source = before.user_corrections[k].source
    /\ DOMAIN before.command_frequencies \subseteq DOMAIN after.command_frequencies
    /\ \A a \in DOMAIN before.command_frequencies :
           before.command_frequencies[a] <= after.command_frequencies[a]

\* C21: over any parse_input or record_feedback call no successful parse,
\* misinterpreted utterance or corrected utterance leaves the learning
\* record and no action frequency decreases; the action of a correction
\* changes only in a call that appends to the misinterpreted utterances,
\* which is a record_feedback call with a new correction
C21_LearningRecordOnlyGrows ==
    [][/\ OnlyGrows(learning_data, learning_data')
       /\ (\E k \in 1..Len(learning_data.user_corrections) :
               learning_data'.user_corrections[k].action
                   # learning_data.user_corrections[k].action)
           => /\ feedbacks' = feedbacks + 1
              /\ Len(learning_data'.misinterpreted_commands)
                     = Len(learning_data.misinterpreted_commands) + 1]_vars

\* a correction was replaced by a newer one for the same utterance, beside a
\* counted action: both kinds of call have changed the record
C21_Witness ==
    /\ feedbacks = 2
    /\ Len(learning_data.user_corrections) = 1
    /\ Len(learning_data.misinterpreted_commands) = 2
    /\ learning_data.misinterpreted_commands[1] = learning_data.misinterpreted_commands[2]
    /\ DOMAIN learning_data.command_frequencies # {}
    /\ learning_data.user_corrections[1].action = "show_path"

(***************************************************************************)
(* C22: stages are invoked in list order, one after the other.             *)
(***************************************************************************)
\* C22: the k-th invocation of an execute_pipeline call is that of the k-th
\* stage of the list, it is made only when the invocation before it has
\* returned a successful stage result, and so no stage is invoked twice.
C22_StagesInListOrder ==
    /\ Len(log) <= Len(pipeline0)
    /\ \A k \in 1..Len(log) :
           /\ log[k].stage = k - 1
           /\ log[k].action = pipeline0[k].action
           /\ k > 1 => log[k - 1].returned /\ log[k - 1].success

\* both stages of a two-stage pipeline were invoked, the first through the
\* executor and the second as a process
C22_Witness ==
    /\ pc = "done"
    /\ Len(pipeline0) = 2
    /\ Len(log) = 2
    /\ log[1].via = "executor" /\ log[1].success
    /\ log[2].via = "process" /\ log[2].stage = 1

(***************************************************************************)
(* C23: a failure reported by the executor fails the stage.                *)
(***************************************************************************)
\* the executor reports a failure: a non-zero return code, success false in
\* the dict it returns, or an exception
ReportsFailure(ex) ==
    \/ ex.kind = "exception"
    \/ ex.kind = "dict" /\ ex.returncode # None /\ ex.returncode[1] # 0
    \/ ex.kind = "dict" /\ ex.success = Some(FALSE)

\* C23: when the executor, called for a non-native stage, reports a failure,
\* the call of execute_pipeline ends at that stage with success=false
C23_ExecutorFailureStopsPipeline ==
    \A k \in 1..Len(log) :
        (log[k].via = "executor" /\ ReportsFailure(log[k].outcome)) =>
            /\ Len(log) = k
            /\ pc = "done"
            /\ ended = "returned"
            /\ result.success = FALSE

(***************************************************************************)
(* C24: parse_input changes the history, the entity context and the        *)
(* frequencies on a confirmed resolution only.                             *)
(***************************************************************************)
\* the count of an action that may not have been counted yet
CountOf(frequencies, a) == IF a \in DOMAIN frequencies THEN frequencies[a] ELSE 0

\* C24: a parse_input call that returns a confirmed command puts that one
\* command at the end of the history (dropping the oldest when the window is
\* full) and adds one to the frequency of its action and to no other; a call
\* that returns 'unrecognized', 'suggest' or None leaves the history, the
\* entity context and the frequencies as they were
C24_ChangesOnlyOnConfirmed ==
    [][parses' = parses + 1 =>
          LET ret == call'.ret
              before == learning_data.command_frequencies
              after == learning_data'.command_frequencies
              n == Len(commands')
          IN  IF ret.kind = "command"
                  THEN /\ n > 0
                       /\ commands'[n] = ret
                       /\ SubSeq(commands', 1, n - 1) =
                              IF Len(commands) < history_size
                                  THEN commands ELSE Tail(commands)
                       /\ DOMAIN after = DOMAIN before \cup {ret.action}
                       /\ \A a \in DOMAIN after :
                              after[a] = CountOf(before, a)
                                             + (IF a = ret.action THEN 1 ELSE 0)
                  ELSE /\ ret.kind \in {"None", "unrecognized", "suggest"}
                       /\ commands' = commands
                       /\ last_entities' = last_entities
                       /\ after = before]_vars

\* two confirmed parses of the same action, then known to the entity context
C24_Witness ==
    /\ parses = 2
    /\ Len(commands) = 2
    /\ call.ret.kind = "command"
    /\ "list_files" \in DOMAIN learning_data.command_frequencies
    /\ learning_data.command_frequencies["list_files"] = 2
    /\ DOMAIN last_entities # {}

(***************************************************************************)
(* C25: the temporary file of a non-native stage and the stage's arguments.*)
(***************************************************************************)
\* C25: for every stage handed to the executor, a temporary file was made
\* for it exactly when it is not the first stage, that file holds the stdout
\* of the stage before it for as long as the pipeline runs, and the
\* arguments the executor got are the file's path when there is a file and
\* the action is display_file or cat, and the stage's own arguments otherwise;
\* no temporary file is registered for any other stage.
C25_TempFileAndArguments ==
    /\ \A k \in 1..Len(log) :
           log[k].via = "executor" =>
               /\ (TempName(k - 1) \in Range(temp_files)) <=> (k > 1)
               /\ (pc = "run" /\ k > 1) =>
                      [name |-> TempName(k - 1), content |-> log[k - 1].stdout] \in fs
               /\ log[k].args =
                      IF k > 1 /\ pipeline0[k].action \in {"display_file", "cat"}
                          THEN <<TempName(k - 1)>>
                          ELSE pipeline0[k].args
    /\ \A j \in 1..Len(temp_files) :
           \E k \in 2..Len(log) :
               log[k].via = "executor" /\ temp_files[j] = TempName(k - 1)

\* the second stage is a cat with an argument of its own: it was given the
\* path of the file that holds the first stage's output, and the file exists
C25_Witness ==
    /\ pc = "run"
    /\ Len(log) = 2
    /\ log[1].stdout = "out"
    /\ log[2].via = "executor"
    /\ pipeline0[2] = PipelineStage("cat", <<"f.txt">>)
    /\ log[2].args = <<TempName(1)>>
    /\ [name |-> TempName(1), content |-> "out"] \in fs

(***************************************************************************)
(* C26: execute_pipeline leaves the stages it was given as they were.      *)
(***************************************************************************)
\* C26: at every point of an execute_pipeline call, and after it on the
\* success and on the failure path, every stage of the list has the action
\* and the args it had when the list was passed in
C26_StagesNotModified ==
    /\ Len(pipeline) = Len(pipeline0)
    /\ \A k \in 1..Len(pipeline0) :
           /\ pipeline[k].action = pipeline0[k].action
           /\ pipeline[k].args = pipeline0[k].args

(***************************************************************************)
(* C27: the table of _map_to_native_command.                               *)
(***************************************************************************)
\* the table of the claim, with list_command the row of list_files
NativeTable(stage, list_command) ==
    IF stage.action = "list_files" THEN Some(list_command)
    ELSE IF stage.action = "display_file" /\ stage.args # <<>>
        THEN Some(<<"cat">> \o stage.args)
    ELSE IF stage.action = "count_lines" THEN Some(<<"wc", "-l">>)
    ELSE IF stage.action = "sort_lines" THEN Some(<<"sort">> \o stage.args)
    ELSE IF stage.action \in {"grep", "find_text"} /\ stage.args # <<>>
        THEN Some(<<"grep">> \o stage.args)
    ELSE None

\* calls with the same action and args gave the same answer, whatever the
\* carried input and is_last_stage were
SameStageSameCommand ==
    \A j, k \in 1..Len(mapped) : mapped[j] = mapped[k] => native_cmds[j] = native_cmds[k]

\* C27 as stated: _map_to_native_command depends on the action and args only,
\* and gives [ls, -la] for list_files, [cat]+args for display_file with args,
\* [wc, -l] for count_lines, [sort]+args for sort_lines, [grep]+args for grep
\* or find_text with args, and no native command for anything else
C27_FixedTable ==
    /\ SameStageSameCommand
    /\ \A k \in 1..Len(mapped) :
           native_cmds[k] = NativeTable(mapped[k], <<"ls", "-la">>)

\* C27 amended: the same, but list_files gives [ls, -la] only when the stage
\* has args, and [ls] when it has none
C27_FixedTableListByArgs ==
    /\ SameStageSameCommand
    /\ \A k \in 1..Len(mapped) :
           native_cmds[k] =
               NativeTable(mapped[k],
                           IF Len(mapped[k].args) > 0 THEN <<"ls", "-la">> ELSE <<"ls">>)

\* list_files was mapped with and without args
C27_Witness ==
    /\ Len(mapped) = 2
    /\ mapped[1] = PipelineStage("list_files", <<>>)
    /\ native_cmds[1] = Some(<<"ls">>)
    /\ mapped[2] = PipelineStage("list_files", <<"f.txt">>)
    /\ native_cmds[2] = Some(<<"ls", "-la">>)

(***************************************************************************)
(* C28: 'preview off' only hides the preview.                              *)
(***************************************************************************)
\* C28: when the terminal has handled a line with previews turned off and
\* parse_input returned a confirmed command for it, that command was given
\* to execute_command
C28_PreviewOffStillExecutes ==
    (/\ front.who = "terminal"
     /\ ~show_command_preview
     /\ front.action \notin {"", "unrecognized", "suggest", "error"}) =>
        front.executed = <<front.action>>

(***************************************************************************)
(* C29: the entity context holds nothing of an evicted command.            *)
(***************************************************************************)
\* C29: the values the entity context holds for a category are those of a
\* command that is still in the history
C29_ContextFromHistoryWindow ==
    \A c \in DOMAIN last_entities :
        \E k \in 1..Len(commands) :
            /\ c \in DOMAIN commands[k].entities
            /\ commands[k].entities[c] = last_entities[c]

(***************************************************************************)
(* C30: the entity context has no directory paths.                         *)
(***************************************************************************)
\* the utterance has 'that' or 'this' before 'directory' or 'folder'
RefersToDirectory(doc) ==
    \E k \in 1..(Len(doc) - 1) :
        /\ Lower(doc[k]) \in {"that", "this"}
        /\ Lower(doc[k + 1]) \in {"directory", "folder"}

\* C30: the entity context never has a directory_paths category; a confirmed
\* command for an utterance that refers to 'that directory' or 'that folder'
\* (and to no file) has the entities of its own text only; and the
\* positional argument of a directory action is the first file-path entity
C30_NoDirectoryPaths ==
    /\ "directory_paths" \notin DOMAIN last_entities
    /\ (call.made /\ call.ret.kind = "command") =>
           /\ "directory_paths" \notin DOMAIN call.ret.entities
           /\ (RefersToDirectory(call.text) /\ ~RefersToFile(call.text)) =>
                  call.ret.entities.file_paths = entity_matcher(call.text, 1)
           /\ call.ret.action \in {"change_directory", "make_directory",
                                    "delete_directory"} =>
                  call.ret.args =
                      (IF call.ret.entities.file_paths # <<>>
                           THEN <<call.ret.entities.file_paths[1]>> ELSE <<>>)
                      \o call.ret.entities.options

\* 'change directory to that folder' was parsed with files in the context: it
\* is a change_directory whose argument is the first path-like span of its
\* own text
C30_Witness ==
    /\ call.made
    /\ call.text = <<"change", "directory", "to", "that", "folder">>
    /\ "file_paths" \in DOMAIN call.context
    /\ call.ret.action = "change_directory"
    /\ call.ret.args = <<"change">>

=============================================================================
